---- MODULE Spec2Model ----
(***************************************************************************)
(* A model of the spork manager (src/src/spork.cpp) and of the orphan      *)
(* transaction pool (src/src/txorphanage.cpp).                             *)
(*                                                                         *)
(* The spork manager's time is counted in units of two hours (the          *)
(* 2 * 60 * 60 seconds of ProcessSpork are one unit).  A signature is      *)
(* modelled by what RecoverCompact and VerifyHash make of it: the key that *)
(* signed the message's signature hash, or BadSig when none is recovered.  *)
(* The orphan pool's time is counted in units of five minutes.             *)
(***************************************************************************)
EXTENDS Integers, Sequences, FiniteSets, TLC

\* ------------------------------------------------------------------ bounds
\* Signer keys 1..NumKeys.
NumKeys == 3
\* The adjusted clock runs from 0 to MaxNow.
MaxNow == 1
\* Peers send sporks signed at 1..MaxTimeSigned.
MaxTimeSigned == 2
\* Spork values 0..MaxValue.
MaxValue == 1
\* Message-handler threads 1..NumThreads.
NumThreads == 2
\* Orphan transactions with wtxid 1..NumTxs.
NumTxs == 4
\* Peers 1..NumPeers.
NumPeers == 2
\* The node's clock runs from 0 to MaxClock.
MaxClock == 4
\* LimitOrphans keeps 0..RngLen orphans, its rng yields RngLen numbers.
RngLen == 3
MaxSweepClock == 6

\* ---------------------------------------------------------------- constants
\* spork.cpp:122, 2 * 60 * 60 seconds: one unit of time.
MaxFutureSkew == 1
\* spork.cpp:129 and :142, the score of Misbehaving.
MisbehavingScore == 100
\* txorphanage.cpp:44, 20 minutes.
ORPHAN_TX_EXPIRE_TIME == 4
\* txorphanage.cpp:134, 5 minutes: one unit of time.
ORPHAN_TX_EXPIRE_INTERVAL == 1
\* txorphanage.cpp:38
MAX_STANDARD_TX_WEIGHT == 400000

Keys == 1..NumKeys
BadSig == 0
NoKey == 0
Values == 0..MaxValue
\* Spork 1 is in sporkDefs, spork 2 is not.
SporkIDs == {1, 2}
\* The defaults table: spork 1 is off by default, a value later than any
\* clock of the model.
sporkDefs == {[sporkId |-> 1, defaultValue |-> 1000000]}
\* The threshold before SetMinSporkKeys (never reached by a count).
UnsetMinSporkKeys == 2147483647

VARIABLES
    mapSporksActive,        \* sporkID -> (signer key -> message)
    mapSporksByHash,        \* hash -> message
    setSporkPubKeyIDs,      \* the authorized signer keys
    nMinSporkKeys,          \* the activation threshold
    sporkPrivKey,           \* the key this node signs with, or NoKey
    mapSporksCachedActive,  \* sporkID -> TRUE
    mapSporksCachedValues,  \* sporkID -> value
    adjustedTime,           \* GetAdjustedTime()
    thread,                 \* each message-handler thread: where it is in its call
    m_orphans,              \* wtxid -> [announcers, nTimeExpire, list_pos]
    m_orphan_list,          \* the entries, for random eviction
    m_outpoint_to_orphan_it,\* outpoint -> the entries spending it
    m_peer_work_set,        \* peer -> the wtxids to reconsider
    m_next_sweep,           \* when LimitOrphans sweeps next
    nodeClock,              \* Now<NodeSeconds>()
    last                    \* the last completed call and what it returned

sporkVars == <<mapSporksActive, mapSporksByHash, setSporkPubKeyIDs, nMinSporkKeys,
               sporkPrivKey, mapSporksCachedActive, mapSporksCachedValues, adjustedTime>>
orphanVars == <<m_orphans, m_orphan_list, m_outpoint_to_orphan_it, m_peer_work_set,
                m_next_sweep, nodeClock>>
vars == <<sporkVars, thread, orphanVars, last>>

\* ------------------------------------------------------------- partial maps
Put(f, k, v) == [x \in (DOMAIN f) \cup {k} |-> IF x = k THEN v ELSE f[x]]
Del(f, k) == [x \in (DOMAIN f) \ {k} |-> f[x]]
Empty == [x \in {} |-> 0]

\* ------------------------------------------------------------ CSporkMessage
CSporkMessage(id, value, time, sig) ==
    [nSporkID |-> id, nValue |-> value, nTimeSigned |-> time, vchSig |-> sig]

\* SerializeHash(*this): every field, the signature included.
GetHash(spork) == <<spork.nSporkID, spork.nValue, spork.nTimeSigned, spork.vchSig>>

\* RecoverCompact over the signature hash: the signing key, if any.
GetSignerKeyID(spork) ==
    [ok |-> spork.vchSig # BadSig, keyID |-> spork.vchSig]

\* VerifyHash(GetSignatureHash(), pubKeyId, vchSig).
CheckSignature(spork, pubKeyId) == spork.vchSig # BadSig /\ spork.vchSig = pubKeyId

\* Sign(key): fails for an invalid key.
Sign(id, value, time, key) ==
    [ok |-> key # NoKey, spork |-> CSporkMessage(id, value, time, key)]

\* The sporks a peer can send.  Key 1 signs spork 1 with any value at any
\* time, and spork 2; the other keys sign spork 1 with any value at time 1; one
\* spork carries a signature no key is recovered from.
PeerSporks ==
    {CSporkMessage(1, v, t, 1) : v \in Values, t \in 1..MaxTimeSigned}
    \cup {CSporkMessage(1, v, 1, k) : v \in Values, k \in Keys \ {1}}
    \cup {CSporkMessage(2, MaxValue, 1, 1), CSporkMessage(1, 0, 1, BadSig)}

\* ------------------------------------------------------------ the state
\* The four maps ProcessSpork works on, as one record.
Maps == [active |-> mapSporksActive, byHash |-> mapSporksByHash,
         cachedActive |-> mapSporksCachedActive, cachedValues |-> mapSporksCachedValues]

SetMaps(m) ==
    /\ mapSporksActive' = m.active
    /\ mapSporksByHash' = m.byHash
    /\ mapSporksCachedActive' = m.cachedActive
    /\ mapSporksCachedValues' = m.cachedValues

\* ------------------------------------------------------------ ProcessSpork
\* spork.cpp:122
TooFarIntoFuture(spork, now) == spork.nTimeSigned > now + MaxFutureSkew

\* spork.cpp:135 without the lookup in setSporkPubKeyIDs
InvalidSignerUnchecked(spork, authorized) == ~GetSignerKeyID(spork).ok

\* spork.cpp:135
InvalidSigner(spork, authorized) ==
    \/ ~GetSignerKeyID(spork).ok
    \/ GetSignerKeyID(spork).keyID \notin authorized

\* spork.cpp:148-159, with the comparison a slip would make of it
SeenStrictlyNewer(active, spork, keyIDSigner) ==
    /\ spork.nSporkID \in DOMAIN active
    /\ keyIDSigner \in DOMAIN active[spork.nSporkID]
    /\ active[spork.nSporkID][keyIDSigner].nTimeSigned > spork.nTimeSigned

\* spork.cpp:148-159: bSeen
Seen(active, spork, keyIDSigner) ==
    /\ spork.nSporkID \in DOMAIN active
    /\ keyIDSigner \in DOMAIN active[spork.nSporkID]
    /\ active[spork.nSporkID][keyIDSigner].nTimeSigned >= spork.nTimeSigned

\* spork.cpp:170-174 without the two erase calls
StoreKeepCaches(m, spork, keyIDSigner) ==
    LET inner == IF spork.nSporkID \in DOMAIN m.active
                 THEN m.active[spork.nSporkID] ELSE Empty
    IN [m EXCEPT !.byHash = Put(m.byHash, GetHash(spork), spork),
                 !.active = Put(m.active, spork.nSporkID, Put(inner, keyIDSigner, spork))]

\* spork.cpp:170-174 (and :214-218): the store under cs
Store(m, spork, keyIDSigner) ==
    LET inner == IF spork.nSporkID \in DOMAIN m.active
                 THEN m.active[spork.nSporkID] ELSE Empty
    IN [byHash |-> Put(m.byHash, GetHash(spork), spork),
        active |-> Put(m.active, spork.nSporkID, Put(inner, keyIDSigner, spork)),
        cachedActive |-> Del(m.cachedActive, spork.nSporkID),
        cachedValues |-> Del(m.cachedValues, spork.nSporkID)]

\* The whole of ProcessSpork run alone: the maps it leaves, whether it relayed,
\* and the score it gave the peer (peer: whether GetPeerRef found the peer).
ProcessSporkResult(m, spork, now, authorized, peer) ==
    IF TooFarIntoFuture(spork, now)
    THEN [maps |-> m, outcome |-> "future", relayed |-> 0,
          score |-> IF peer THEN MisbehavingScore ELSE 0]
    ELSE IF InvalidSigner(spork, authorized)
    THEN [maps |-> m, outcome |-> "signature", relayed |-> 0,
          score |-> IF peer THEN MisbehavingScore ELSE 0]
    ELSE IF Seen(m.active, spork, GetSignerKeyID(spork).keyID)
    THEN [maps |-> m, outcome |-> "seen", relayed |-> 0, score |-> 0]
    ELSE [maps |-> Store(m, spork, GetSignerKeyID(spork).keyID),
          outcome |-> "accepted", relayed |-> 1, score |-> 0]

\* One call of ProcessSpork, run alone.
ProcessSporkCall(spork, peer) ==
    \E r \in {ProcessSporkResult(Maps, spork, adjustedTime, setSporkPubKeyIDs, peer)} :
       /\ SetMaps(r.maps)
       /\ last' = [op |-> "ProcessSpork", outcome |-> r.outcome,
                   relayed |-> r.relayed, score |-> r.score]
       /\ UNCHANGED <<setSporkPubKeyIDs, nMinSporkKeys, sporkPrivKey, adjustedTime>>

ProcessSpork(sporks) ==
    \E spork \in sporks, peer \in BOOLEAN : ProcessSporkCall(spork, peer)

\* -------------------------------------------------------------- UpdateSpork
\* spork.cpp:195-222 run alone: the node signs (nSporkID, nValue, now) itself.
UpdateSporkResult(m, nSporkID, nValue, now, privKey, authorized) ==
    LET signed == Sign(nSporkID, nValue, now, privKey)
        signer == GetSignerKeyID(signed.spork)
    IN IF ~signed.ok
       THEN [maps |-> m, ret |-> FALSE, relayed |-> 0]
       ELSE IF ~signer.ok \/ signer.keyID \notin authorized
       THEN [maps |-> m, ret |-> FALSE, relayed |-> 0]
       ELSE [maps |-> Store(m, signed.spork, signer.keyID), ret |-> TRUE, relayed |-> 1]

UpdateSpork ==
    \E nSporkID \in SporkIDs, nValue \in Values :
        LET r == UpdateSporkResult(Maps, nSporkID, nValue, adjustedTime,
                                   sporkPrivKey, setSporkPubKeyIDs)
        IN /\ SetMaps(r.maps)
           /\ last' = [op |-> "UpdateSpork", ret |-> r.ret, relayed |-> r.relayed]
           /\ UNCHANGED <<setSporkPubKeyIDs, nMinSporkKeys, sporkPrivKey, adjustedTime>>

\* ------------------------------------------------------------------ queries
\* Every order in which a loop can walk the keys of a map.
RECURSIVE Orders(_)
Orders(S) ==
    IF S = {} THEN {<< >>}
    ELSE UNION {{<<k>> \o o : o \in Orders(S \ {k})} : k \in S}

\* spork.cpp:34-44: the value of the first signer, in the order walked, with
\* which some value has been counted nMinSporkKeys times; none: -1 and ok FALSE.
FirstToReach(inner, order, threshold) ==
    LET count(i) == Cardinality({j \in 1..i : inner[order[j]].nValue = inner[order[i]].nValue})
        hits == {i \in 1..Len(order) : count(i) >= threshold}
        first == CHOOSE i \in hits : \A j \in hits : i <= j
    IN IF hits = {} THEN [ok |-> FALSE, value |-> -1]
       ELSE [ok |-> TRUE, value |-> inner[order[first]].nValue]

\* spork.cpp:22-47; order is the walk of mapSporksActive.at(nSporkID).
SporkValueIsActiveResult(m, nSporkID, threshold, order) ==
    IF nSporkID \notin DOMAIN m.active
    THEN [ok |-> FALSE, value |-> -1, maps |-> m]
    ELSE IF nSporkID \in DOMAIN m.cachedValues
    THEN [ok |-> TRUE, value |-> m.cachedValues[nSporkID], maps |-> m]
    ELSE LET f == FirstToReach(m.active[nSporkID], order, threshold)
         IN IF f.ok
            THEN [ok |-> TRUE, value |-> f.value,
                  maps |-> [m EXCEPT !.cachedValues = Put(m.cachedValues, nSporkID, f.value)]]
            ELSE [ok |-> FALSE, value |-> -1, maps |-> m]

\* The walks SporkValueIsActive can take of a spork's signers.
WalksOf(m, nSporkID) ==
    IF nSporkID \in DOMAIN m.active THEN Orders(DOMAIN m.active[nSporkID]) ELSE {<< >>}

\* spork.cpp:251-257
DefaultValue(nSporkID) ==
    IF \E d \in sporkDefs : d.sporkId = nSporkID
    THEN (CHOOSE d \in sporkDefs : d.sporkId = nSporkID).defaultValue
    ELSE -1

\* spork.cpp:242-258
GetSporkValueResult(m, nSporkID, threshold, order) ==
    LET r == SporkValueIsActiveResult(m, nSporkID, threshold, order)
    IN IF r.ok THEN [value |-> r.value, maps |-> r.maps]
       ELSE [value |-> DefaultValue(nSporkID), maps |-> r.maps]

\* spork.cpp:224-240
IsSporkActiveResult(m, nSporkID, threshold, order, now) ==
    IF nSporkID \in DOMAIN m.cachedActive /\ m.cachedActive[nSporkID]
    THEN [ret |-> TRUE, maps |-> m]
    ELSE LET r == GetSporkValueResult(m, nSporkID, threshold, order)
             ret == r.value < now
         IN [ret |-> ret,
             maps |-> IF ret
                      THEN [r.maps EXCEPT !.cachedActive = Put(r.maps.cachedActive, nSporkID, TRUE)]
                      ELSE r.maps]

GetSporkValue ==
    \E nSporkID \in SporkIDs : \E order \in WalksOf(Maps, nSporkID) :
        \E r \in {GetSporkValueResult(Maps, nSporkID, nMinSporkKeys, order)} :
           /\ SetMaps(r.maps)
           /\ last' = [op |-> "GetSporkValue", nSporkID |-> nSporkID, ret |-> r.value]
           /\ UNCHANGED <<setSporkPubKeyIDs, nMinSporkKeys, sporkPrivKey, adjustedTime>>

IsSporkActive ==
    \E nSporkID \in SporkIDs : \E order \in WalksOf(Maps, nSporkID) :
        \E r \in {IsSporkActiveResult(Maps, nSporkID, nMinSporkKeys, order, adjustedTime)} :
           /\ SetMaps(r.maps)
           /\ last' = [op |-> "IsSporkActive", nSporkID |-> nSporkID, ret |-> r.ret]
           /\ UNCHANGED <<setSporkPubKeyIDs, nMinSporkKeys, sporkPrivKey, adjustedTime>>

\* ----------------------------------------------------- Clear, CheckAndRemove
\* spork.cpp:49-56
ClearResult(m) == [m EXCEPT !.active = Empty, !.byHash = Empty]

Clear ==
    /\ SetMaps(ClearResult(Maps))
    /\ last' = [op |-> "Clear"]
    /\ UNCHANGED <<setSporkPubKeyIDs, nMinSporkKeys, sporkPrivKey, adjustedTime>>

\* spork.cpp:66-67 without the lookup in setSporkPubKeyIDs
HasValidSigAnyKey(authorized, keyID, spork) == CheckSignature(spork, keyID)

\* spork.cpp:66-67: fHasValidSig
HasValidSig(authorized, keyID, spork) ==
    keyID \in authorized /\ CheckSignature(spork, keyID)

\* spork.cpp:83-89 taking every message for found
FoundAnySigner(authorized, spork) == TRUE

\* spork.cpp:83-89: found, some authorized key verifies the signature
FoundSigner(authorized, spork) ==
    \E signer \in authorized : CheckSignature(spork, signer)

\* spork.cpp:58-96
CheckAndRemoveResult(m, authorized) ==
    LET kept(id) == {k \in DOMAIN m.active[id] : HasValidSig(authorized, k, m.active[id][k])}
        dropped == UNION {{GetHash(m.active[id][k]) : k \in (DOMAIN m.active[id]) \ kept(id)} :
                            id \in DOMAIN m.active}
        \* :63-80
        active1 == [id \in {i \in DOMAIN m.active : kept(i) # {}} |->
                        [k \in kept(id) |-> m.active[id][k]]]
        byHash1 == [h \in (DOMAIN m.byHash) \ dropped |-> m.byHash[h]]
        \* :82-95
        found(h) == FoundSigner(authorized, byHash1[h])
        byHash2 == [h \in {x \in DOMAIN byHash1 : found(x)} |-> byHash1[h]]
    IN [m EXCEPT !.active = active1, !.byHash = byHash2]

CheckAndRemove ==
    /\ setSporkPubKeyIDs # {}       \* :61, the assert
    /\ SetMaps(CheckAndRemoveResult(Maps, setSporkPubKeyIDs))
    /\ last' = [op |-> "CheckAndRemove",
                erased |-> Cardinality(DOMAIN mapSporksByHash)
                           - Cardinality(DOMAIN mapSporksByHash')]
    /\ UNCHANGED <<setSporkPubKeyIDs, nMinSporkKeys, sporkPrivKey, adjustedTime>>

\* ---------------------------------------------------------- configuration
\* spork.cpp:285-302; keyID is what the address decodes to, NoKey when it is
\* no key-hash address.
SetSporkAddress ==
    \E keyID \in Keys \cup {NoKey} :
        /\ setSporkPubKeyIDs' = IF keyID = NoKey THEN setSporkPubKeyIDs
                                ELSE setSporkPubKeyIDs \cup {keyID}
        /\ last' = [op |-> "SetSporkAddress", ret |-> keyID # NoKey]
        /\ UNCHANGED <<mapSporksActive, mapSporksByHash, nMinSporkKeys, sporkPrivKey,
                       mapSporksCachedActive, mapSporksCachedValues, adjustedTime>>

\* spork.cpp:307
MinSporkKeysInvalid(minSporkKeys, maxKeysNumber) ==
    (minSporkKeys <= maxKeysNumber \div 2) \/ (minSporkKeys > maxKeysNumber)

\* spork.cpp:304-313
SetMinSporkKeys ==
    \E minSporkKeys \in 0..(NumKeys + 1) :
        LET bad == MinSporkKeysInvalid(minSporkKeys, Cardinality(setSporkPubKeyIDs))
        IN /\ nMinSporkKeys' = IF bad THEN nMinSporkKeys ELSE minSporkKeys
           /\ last' = [op |-> "SetMinSporkKeys", ret |-> ~bad]
           /\ UNCHANGED <<mapSporksActive, mapSporksByHash, setSporkPubKeyIDs, sporkPrivKey,
                          mapSporksCachedActive, mapSporksCachedValues, adjustedTime>>

\* spork.cpp:315-339; key is what the secret parses to, NoKey when it does not.
SetPrivKey ==
    \E key \in Keys \cup {NoKey} :
        LET ok == key # NoKey /\ key \in setSporkPubKeyIDs
        IN /\ sporkPrivKey' = IF ok THEN key ELSE sporkPrivKey
           /\ last' = [op |-> "SetPrivKey", ret |-> ok]
           /\ UNCHANGED <<mapSporksActive, mapSporksByHash, setSporkPubKeyIDs, nMinSporkKeys,
                          mapSporksCachedActive, mapSporksCachedValues, adjustedTime>>

\* The authorized set changes (spec.md, CheckAndRemove and scenario S6): a key
\* is no longer a spork address.
DeauthorizeSigner ==
    \E keyID \in setSporkPubKeyIDs :
        /\ setSporkPubKeyIDs' = setSporkPubKeyIDs \ {keyID}
        /\ last' = [op |-> "DeauthorizeSigner"]
        /\ UNCHANGED <<mapSporksActive, mapSporksByHash, nMinSporkKeys, sporkPrivKey,
                       mapSporksCachedActive, mapSporksCachedValues, adjustedTime>>

\* ------------------------------------------------------------- the clock
Tick ==
    /\ adjustedTime < MaxNow
    /\ adjustedTime' = adjustedTime + 1
    /\ UNCHANGED <<mapSporksActive, mapSporksByHash, setSporkPubKeyIDs, nMinSporkKeys,
                   sporkPrivKey, mapSporksCachedActive, mapSporksCachedValues>>

\* The clock moves between two calls.
ClockTick == Tick /\ last' = [op |-> "Tick"]

\* ------------------------------------------------- calls run by threads
\* ProcessSpork, UpdateSpork and ProcessGetSporks as the threads of the message
\* handler run them: one step per stretch of code between two lock operations.
\* thread[t].pc names the step t takes next; thread[t].held are the locks it holds.
Threads == 1..NumThreads

NoSpork == CSporkMessage(0, 0, 0, BadSig)

Idle == [pc |-> "idle", spork |-> NoSpork, peer |-> FALSE, keyIDSigner |-> NoKey,
         held |-> {}]

\* LOCK(cs): cs is a recursive mutex, free for t when no other thread holds it.
CsFree(t) == \A u \in Threads \ {t} : "cs" \notin thread[u].held

Goto(t, label) == thread' = [thread EXCEPT ![t].pc = label]

\* The sporks the threads race on: key 1's sporks of value 0, and the spork
\* with the bad signature.
RaceSporks == {m \in PeerSporks : m.nSporkID = 1 /\ m.nValue = 0 /\ m.vchSig \in {1, BadSig}}

\* spork.cpp:104-113: the message is read, GetPeerRef looks the peer up.
PS_Begin(t) ==
    \E spork \in RaceSporks, peer \in BOOLEAN :
        /\ thread[t].pc = "idle"
        /\ thread' = [thread EXCEPT ![t] = [Idle EXCEPT !.pc = "Received", !.spork = spork,
                                                         !.peer = peer]]
        /\ UNCHANGED sporkVars

\* spork.cpp:114-122: AddKnownTx, ReceivedResponse under cs_main, the time check.
PS_Received(t) ==
    /\ thread[t].pc = "Received"
    /\ Goto(t, IF TooFarIntoFuture(thread[t].spork, adjustedTime)
               THEN "RejectFuture" ELSE "GetSigner")
    /\ UNCHANGED sporkVars

\* spork.cpp:123-130: ForgetTxHash under cs_main, Misbehaving, return.
PS_RejectFuture(t) ==
    /\ thread[t].pc = "RejectFuture"
    /\ thread' = [thread EXCEPT ![t] = Idle]
    /\ UNCHANGED sporkVars

\* spork.cpp:133-135: the signer is recovered and looked up, cs not held.
PS_GetSigner(t) ==
    /\ thread[t].pc = "GetSigner"
    /\ IF InvalidSigner(thread[t].spork, setSporkPubKeyIDs)
       THEN Goto(t, "RejectSignature")
       ELSE thread' = [thread EXCEPT ![t].pc = "LockSeen",
                                     ![t].keyIDSigner = GetSignerKeyID(thread[t].spork).keyID]
    /\ UNCHANGED sporkVars

\* spork.cpp:136-143: ForgetTxHash under cs_main, Misbehaving, return.
PS_RejectSignature(t) ==
    /\ thread[t].pc = "RejectSignature"
    /\ thread' = [thread EXCEPT ![t] = Idle]
    /\ UNCHANGED sporkVars

\* spork.cpp:147: LOCK(cs)
PS_LockSeen(t) ==
    /\ thread[t].pc = "LockSeen"
    /\ CsFree(t)
    /\ thread' = [thread EXCEPT ![t].pc = "CheckSeen", ![t].held = @ \cup {"cs"}]
    /\ UNCHANGED sporkVars

\* spork.cpp:161-178 with a seen spork going on to Relay
AfterCheckSeenRelays(bSeen) == IF bSeen THEN "Relay" ELSE "LockStore"

\* spork.cpp:161-166: a seen spork is forgotten and the call returns; any
\* other goes on to the store.
AfterCheckSeen(bSeen) == IF bSeen THEN "ForgetSeen" ELSE "LockStore"

\* spork.cpp:148-161: bSeen is worked out, the block ends and releases cs.
PS_CheckSeen(t) ==
    /\ thread[t].pc = "CheckSeen"
    /\ thread' = [thread EXCEPT
                    ![t].pc = AfterCheckSeen(Seen(mapSporksActive, thread[t].spork,
                                                  thread[t].keyIDSigner)),
                    ![t].held = @ \ {"cs"}]
    /\ UNCHANGED sporkVars

\* spork.cpp:162-164: ForgetTxHash under cs_main, return.
PS_ForgetSeen(t) ==
    /\ thread[t].pc = "ForgetSeen"
    /\ thread' = [thread EXCEPT ![t] = Idle]
    /\ UNCHANGED sporkVars

\* spork.cpp:169 (and :213): LOCK(cs)
LockStore(t) ==
    /\ thread[t].pc = "LockStore"
    /\ CsFree(t)
    /\ thread' = [thread EXCEPT ![t].pc = "Store", ![t].held = @ \cup {"cs"}]
    /\ UNCHANGED sporkVars

\* spork.cpp:170-175 with the block's end after the call of Relay
AfterStoreKeepCs(t) == [thread EXCEPT ![t].pc = "Relay"]

\* spork.cpp:175 (and :219): the block ends and releases cs, Relay is next.
AfterStore(t) == [thread EXCEPT ![t].pc = "Relay", ![t].held = @ \ {"cs"}]

\* spork.cpp:170-175 (and :214-219): the store under cs.
StoreStep(t) ==
    /\ thread[t].pc = "Store"
    /\ SetMaps(Store(Maps, thread[t].spork, thread[t].keyIDSigner))
    /\ thread' = AfterStore(t)
    /\ UNCHANGED <<setSporkPubKeyIDs, nMinSporkKeys, sporkPrivKey, adjustedTime>>

\* spork.cpp:176-181 (and :220-221): Relay, then in ProcessSpork ForgetTxHash
\* under cs_main, return.
RelayStep(t) ==
    /\ thread[t].pc = "Relay"
    /\ thread' = [thread EXCEPT ![t] = [Idle EXCEPT !.held = thread[t].held]]
    /\ UNCHANGED sporkVars

\* spork.cpp:197-211: the node signs its own spork; a failure returns false.
US_Begin(t) ==
    \E nValue \in Values :
        LET signed == Sign(1, nValue, adjustedTime, sporkPrivKey)
            signer == GetSignerKeyID(signed.spork)
        IN /\ thread[t].pc = "idle"
           /\ thread' = IF signed.ok /\ signer.ok /\ signer.keyID \in setSporkPubKeyIDs
                        THEN [thread EXCEPT ![t] = [Idle EXCEPT !.pc = "LockStore",
                                                                 !.spork = signed.spork,
                                                                 !.keyIDSigner = signer.keyID]]
                        ELSE thread
           /\ UNCHANGED sporkVars

\* spork.cpp:187: LOCK(cs)
GS_Lock(t) ==
    /\ thread[t].pc = "idle"
    /\ CsFree(t)
    /\ thread' = [thread EXCEPT ![t].pc = "PushMessages", ![t].held = @ \cup {"cs"}]
    /\ UNCHANGED sporkVars

\* spork.cpp:188-193: every active spork is pushed to the peer; cs is released.
GS_PushMessages(t) ==
    /\ thread[t].pc = "PushMessages"
    /\ thread' = [thread EXCEPT ![t] = Idle]
    /\ UNCHANGED sporkVars

\* spork.cpp:273: LOCK(cs)
GH_Lock(t) ==
    /\ thread[t].pc = "idle"
    /\ CsFree(t)
    /\ thread' = [thread EXCEPT ![t].pc = "FindByHash", ![t].held = @ \cup {"cs"}]
    /\ UNCHANGED sporkVars

\* spork.cpp:275-283: the lookup in mapSporksByHash; cs is released.
GH_Find(t) ==
    /\ thread[t].pc = "FindByHash"
    /\ thread' = [thread EXCEPT ![t] = Idle]
    /\ UNCHANGED sporkVars

\* The steps that lock cs_main, and those that call the peer manager or Relay.
LocksCsMain == {"Received", "RejectFuture", "RejectSignature", "ForgetSeen", "Relay"}
CallsPeerManager == {"Received", "RejectFuture", "RejectSignature", "ForgetSeen", "Relay"}

\* ============================================================ TxOrphanage
\* src/src/txorphanage.cpp.  A transaction is known by its wtxid; an iterator
\* into m_orphans by the wtxid of the entry it points to.  Time is counted in
\* units of ORPHAN_TX_EXPIRE_INTERVAL.
Wtxids == 1..NumTxs
Peers == 1..NumPeers

COutPoint(hash, n) == <<hash, n>>

\* The transaction whose inputs the orphans spend: two outputs.
ParentTx == [txid |-> 0, vout |-> 2]

\* The inputs of the orphan with wtxid w: one output of the parent, both, or
\* the same output twice.
Vin(w) ==
    CASE w % 4 = 1 -> <<COutPoint(ParentTx.txid, 0)>>
      [] w % 4 = 2 -> <<COutPoint(ParentTx.txid, 0), COutPoint(ParentTx.txid, 1)>>
      [] w % 4 = 3 -> <<COutPoint(ParentTx.txid, 1), COutPoint(ParentTx.txid, 1)>>
      [] OTHER -> <<COutPoint(ParentTx.txid, 0)>>

\* GetTransactionWeight: every fourth transaction is one unit too heavy.
Weight(w) == IF w % 4 = 0 THEN MAX_STANDARD_TX_WEIGHT + 1 ELSE MAX_STANDARD_TX_WEIGHT

Tx(w) == [wtxid |-> w, txid |-> w, vin |-> Vin(w), weight |-> Weight(w)]

Prevouts(tx) == {tx.vin[i] : i \in DOMAIN tx.vin}

\* The blocks that connect: each spends one output of the parent, or both.
Blocks ==
    {<<[vin |-> <<COutPoint(ParentTx.txid, 0)>>]>>,
     <<[vin |-> <<COutPoint(ParentTx.txid, 1)>>], [vin |-> <<COutPoint(ParentTx.txid, 0)>>]>>}

\* The members of a set of wtxids in the order a std::map or std::set walks them.
RECURSIVE Ascending(_)
Ascending(S) ==
    IF S = {} THEN << >>
    ELSE LET least == CHOOSE x \in S : \A y \in S : x <= y
         IN <<least>> \o Ascending(S \ {least})

\* The five members of the orphanage, as one record.
Orphanage == [orphans |-> m_orphans, list |-> m_orphan_list,
              byPrev |-> m_outpoint_to_orphan_it, workSet |-> m_peer_work_set,
              nextSweep |-> m_next_sweep]

SetOrphanage(o) ==
    /\ m_orphans' = o.orphans
    /\ m_orphan_list' = o.list
    /\ m_outpoint_to_orphan_it' = o.byPrev
    /\ m_peer_work_set' = o.workSet
    /\ m_next_sweep' = o.nextSweep

\* txorphanage.cpp:38 with the limit one unit higher
TooBigOffByOne(tx) == tx.weight > MAX_STANDARD_TX_WEIGHT + 1

\* txorphanage.cpp:37-38
TooBig(tx) == tx.weight > MAX_STANDARD_TX_WEIGHT

\* txorphanage.cpp:15-54
AddTxResult(o, tx, peer, now) ==
    IF tx.wtxid \in DOMAIN o.orphans
    THEN [ret |-> FALSE,
          o |-> [o EXCEPT !.orphans[tx.wtxid].announcers = @ \cup {peer}]]
    ELSE IF TooBig(tx)
    THEN [ret |-> FALSE, o |-> o]
    ELSE LET it == [announcers |-> {peer},
                    nTimeExpire |-> now + ORPHAN_TX_EXPIRE_TIME,
                    list_pos |-> Len(o.list)]
             spent == Prevouts(tx)
         IN [ret |-> TRUE,
             o |-> [o EXCEPT
                      !.orphans = Put(o.orphans, tx.wtxid, it),
                      !.list = Append(o.list, tx.wtxid),
                      !.byPrev = [p \in (DOMAIN o.byPrev) \cup spent |->
                                     (IF p \in DOMAIN o.byPrev THEN o.byPrev[p] ELSE {})
                                     \cup (IF p \in spent THEN {tx.wtxid} ELSE {})]]]

AddTxCall(w, peer) ==
    \E r \in {AddTxResult(Orphanage, Tx(w), peer, nodeClock)} :
       /\ SetOrphanage(r.o)
       /\ last' = [op |-> "AddTx", ret |-> r.ret]
       /\ UNCHANGED nodeClock

AddTx(peers) == \E w \in Wtxids, peer \in peers : AddTxCall(w, peer)

\* txorphanage.cpp:56-68
AddAnnouncerResult(o, wtxid, peer) ==
    IF wtxid \in DOMAIN o.orphans /\ peer \notin o.orphans[wtxid].announcers
    THEN [ret |-> TRUE, o |-> [o EXCEPT !.orphans[wtxid].announcers = @ \cup {peer}]]
    ELSE [ret |-> FALSE, o |-> o]

AddAnnouncer ==
    \E wtxid \in Wtxids, peer \in Peers :
        \E r \in {AddAnnouncerResult(Orphanage, wtxid, peer)} :
           /\ SetOrphanage(r.o)
           /\ last' = [op |-> "AddAnnouncer", ret |-> r.ret]
           /\ UNCHANGED nodeClock

\* txorphanage.cpp:75-83 leaving the key of an emptied set in the index
ErasePrevoutsKeepKeys(byPrev, wtxid, spent) ==
    [p \in DOMAIN byPrev |-> IF p \in spent THEN byPrev[p] \ {wtxid} ELSE byPrev[p]]

\* txorphanage.cpp:75-83: wtxid leaves the set of every outpoint it spends,
\* and a set that becomes empty leaves the index.
ErasePrevouts(byPrev, wtxid, spent) ==
    LET left(p) == IF p \in spent THEN byPrev[p] \ {wtxid} ELSE byPrev[p]
    IN [p \in {q \in DOMAIN byPrev : q \in spent => left(q) # {}} |-> left(p)]

\* txorphanage.cpp:87-93 without :92
MoveLastKeepPos(orphans, it_last, old_pos) == orphans

\* txorphanage.cpp:92, the moved element learns its place
MoveLast(orphans, it_last, old_pos) == [orphans EXCEPT ![it_last].list_pos = old_pos]

\* txorphanage.cpp:116 and :317 never taking the peer for the only announcer
SoleAnnouncerNever(orphan) == FALSE

\* txorphanage.cpp:70-103.  aborted: the assert of :86 failed (or list_pos is
\* no position of m_orphan_list) and the process ended.
EraseTxResult(o, wtxid) ==
    IF wtxid \notin DOMAIN o.orphans
    THEN [ret |-> 0, o |-> o, aborted |-> FALSE]
    ELSE LET it == o.orphans[wtxid]
             spent == Prevouts(Tx(wtxid))
             byPrev1 == ErasePrevouts(o.byPrev, wtxid, spent)
             old_pos == it.list_pos
             size == Len(o.list)
         IN IF old_pos >= size \/ o.list[old_pos + 1] # wtxid
            THEN [ret |-> 0, o |-> [o EXCEPT !.byPrev = byPrev1], aborted |-> TRUE]
            ELSE LET it_last == o.list[size]
                     moved == old_pos + 1 # size
                     \* :87-93
                     list1 == IF moved THEN [o.list EXCEPT ![old_pos + 1] = it_last] ELSE o.list
                     orphans1 == IF moved
                                 THEN MoveLast(o.orphans, it_last, old_pos)
                                 ELSE o.orphans
                 IN [ret |-> 1,
                     \* :99-101
                     o |-> [o EXCEPT !.byPrev = byPrev1,
                                     !.list = SubSeq(list1, 1, size - 1),
                                     !.orphans = Del(orphans1, wtxid)],
                     aborted |-> FALSE]

EraseTx ==
    \E wtxid \in Wtxids :
        \E r \in {EraseTxResult(Orphanage, wtxid)} :
           /\ ~r.aborted
           /\ SetOrphanage(r.o)
           /\ last' = [op |-> "EraseTx", ret |-> r.ret]
           /\ UNCHANGED nodeClock

\* txorphanage.cpp:116 taking two announcers for one
SoleAnnouncerOrTwo(orphan) == Cardinality(orphan.announcers) <= 2

\* txorphanage.cpp:116 (and :317)
SoleAnnouncer(orphan) == Cardinality(orphan.announcers) = 1

\* txorphanage.cpp:111-123, iter walking the entries that are left to visit.
RECURSIVE EraseForPeerLoop(_, _, _, _)
EraseForPeerLoop(o, peer, iter, nErased) ==
    IF iter = << >>
    THEN [o |-> o, nErased |-> nErased, aborted |-> FALSE]
    ELSE LET wtxid == Head(iter)
             orphan == o.orphans[wtxid]
         IN IF peer \notin orphan.announcers
            THEN EraseForPeerLoop(o, peer, Tail(iter), nErased)
            ELSE IF SoleAnnouncer(orphan)
            THEN LET e == EraseTxResult(o, wtxid)
                 IN IF e.aborted
                    THEN [o |-> e.o, nErased |-> nErased, aborted |-> TRUE]
                    ELSE EraseForPeerLoop(e.o, peer, Tail(iter), nErased + e.ret)
            ELSE EraseForPeerLoop([o EXCEPT !.orphans[wtxid].announcers = @ \ {peer}],
                                  peer, Tail(iter), nErased)

\* txorphanage.cpp:105-125
EraseForPeerResult(o, peer) ==
    EraseForPeerLoop([o EXCEPT !.workSet = Del(o.workSet, peer)], peer,
                     Ascending(DOMAIN o.orphans), 0)

EraseForPeerCall(peer) ==
    \E r \in {EraseForPeerResult(Orphanage, peer)} :
       /\ ~r.aborted
       /\ SetOrphanage(r.o)
       /\ last' = [op |-> "EraseForPeer", peer |-> peer, nErased |-> r.nErased]
       /\ UNCHANGED nodeClock

EraseForPeer == \E peer \in Peers : EraseForPeerCall(peer)

\* txorphanage.cpp:302-324
EraseOrphanOfPeerResult(o, wtxid, peer) ==
    IF wtxid \notin DOMAIN o.orphans
    THEN [o |-> o, aborted |-> FALSE]
    ELSE LET o1 == IF peer \in DOMAIN o.workSet
                   THEN [o EXCEPT !.workSet[peer] = @ \ {wtxid}]
                   ELSE o
         IN IF peer \notin o1.orphans[wtxid].announcers
            THEN [o |-> o1, aborted |-> FALSE]
            ELSE IF SoleAnnouncer(o1.orphans[wtxid])
            THEN LET e == EraseTxResult(o1, wtxid) IN [o |-> e.o, aborted |-> e.aborted]
            ELSE [o |-> [o1 EXCEPT !.orphans[wtxid].announcers = @ \ {peer}],
                  aborted |-> FALSE]

EraseOrphanOfPeer ==
    \E wtxid \in Wtxids, peer \in Peers :
        \E r \in {EraseOrphanOfPeerResult(Orphanage, wtxid, peer)} :
           /\ ~r.aborted
           /\ SetOrphanage(r.o)
           /\ last' = [op |-> "EraseOrphanOfPeer"]
           /\ UNCHANGED nodeClock

\* txorphanage.cpp:144 leaving nMinExpTime as it is
MinExpTimeKept(nTimeExpire, nMinExpTime) == nMinExpTime

\* txorphanage.cpp:144, std::min
MinExpTime(nTimeExpire, nMinExpTime) ==
    IF nTimeExpire < nMinExpTime THEN nTimeExpire ELSE nMinExpTime

\* txorphanage.cpp:136-146, iter walking the entries that are left to visit.
RECURSIVE SweepLoop(_, _, _, _, _)
SweepLoop(o, iter, nNow, nMinExpTime, erased) ==
    IF iter = << >>
    THEN [o |-> o, nMinExpTime |-> nMinExpTime, erased |-> erased, aborted |-> FALSE]
    ELSE LET maybeErase == Head(iter)
             nTimeExpire == o.orphans[maybeErase].nTimeExpire
         IN IF nTimeExpire <= nNow
            THEN LET e == EraseTxResult(o, maybeErase)
                 IN IF e.aborted
                    THEN [o |-> e.o, nMinExpTime |-> nMinExpTime,
                          erased |-> Append(erased, maybeErase), aborted |-> TRUE]
                    ELSE SweepLoop(e.o, Tail(iter), nNow, nMinExpTime,
                                   Append(erased, maybeErase))
            ELSE SweepLoop(o, Tail(iter), nNow, MinExpTime(nTimeExpire, nMinExpTime),
                           erased)

\* txorphanage.cpp:132 sweeping only after m_next_sweep
SweepOverdue(nextSweep, nNow) == nextSweep < nNow

\* txorphanage.cpp:132
SweepDue(nextSweep, nNow) == nextSweep <= nNow

\* txorphanage.cpp:132-150
Sweep(o, nNow) ==
    IF SweepDue(o.nextSweep, nNow)
    THEN LET r == SweepLoop(o, Ascending(DOMAIN o.orphans), nNow,
                            nNow + ORPHAN_TX_EXPIRE_TIME - ORPHAN_TX_EXPIRE_INTERVAL, << >>)
         IN [o |-> IF r.aborted THEN r.o
                   ELSE [r.o EXCEPT !.nextSweep = r.nMinExpTime + ORPHAN_TX_EXPIRE_INTERVAL],
             erased |-> r.erased, aborted |-> r.aborted]
    ELSE [o |-> o, erased |-> << >>, aborted |-> FALSE]

\* txorphanage.cpp:151 leaving one orphan more than max_orphans
OverLimitByTwo(o, max_orphans) == Cardinality(DOMAIN o.orphans) > max_orphans + 1

\* txorphanage.cpp:151, the condition of the eviction loop
OverLimit(o, max_orphans) == Cardinality(DOMAIN o.orphans) > max_orphans

\* txorphanage.cpp:151-159.  rng is the stream of numbers the FastRandomContext
\* draws from, randrange(n) takes the next one modulo n; returned is FALSE
\* when the loop is still running after the last number of rng.
RECURSIVE EvictLoop(_, _, _, _, _)
EvictLoop(o, max_orphans, rng, erased, nEvicted) ==
    LET stopped(returned, aborted) ==
            [ret |-> erased, nEvicted |-> nEvicted, o |-> o,
             returned |-> returned, aborted |-> aborted]
    IN IF ~OverLimit(o, max_orphans) THEN stopped(TRUE, FALSE)
       ELSE IF rng = << >> THEN stopped(FALSE, FALSE)
       ELSE IF o.list = << >> THEN stopped(FALSE, TRUE)
       ELSE LET randompos == Head(rng) % Len(o.list)
                wtxid == o.list[randompos + 1]
                e == EraseTxResult(o, wtxid)
            IN IF e.aborted THEN stopped(FALSE, TRUE)
               ELSE EvictLoop(e.o, max_orphans, Tail(rng), Append(erased, wtxid),
                              nEvicted + 1)

\* txorphanage.cpp:127-162
LimitOrphansResult(o, max_orphans, rng, nNow) ==
    LET s == Sweep(o, nNow)
    IN IF s.aborted
       THEN [ret |-> s.erased, nEvicted |-> 0, o |-> s.o,
             returned |-> FALSE, aborted |-> TRUE]
       ELSE EvictLoop(s.o, max_orphans, rng, s.erased, 0)

\* The streams of random numbers LimitOrphans is called with: RngLen numbers
\* that start at seed and go up by step.
Rngs == {[i \in 1..RngLen |-> (seed + i * step) % RngLen] : seed, step \in 0..(RngLen - 1)}

LimitOrphansCall(max_orphans, rng) ==
    \E r \in {LimitOrphansResult(Orphanage, max_orphans, rng, nodeClock)} :
       /\ ~r.aborted
       /\ SetOrphanage(r.o)
       /\ last' = [op |-> "LimitOrphans", max_orphans |-> max_orphans, ret |-> r.ret,
                   nEvicted |-> r.nEvicted, returned |-> r.returned]
       /\ UNCHANGED nodeClock

LimitOrphans == \E max_orphans \in 0..RngLen, rng \in Rngs : LimitOrphansCall(max_orphans, rng)

\* txorphanage.cpp:169-181, the entries spending one outpoint in the order of
\* the set; an entry without announcers ends the walk (:171).
RECURSIVE AddElemsToWorkSet(_, _)
AddElemsToWorkSet(o, elems) ==
    IF elems = << >> THEN o
    ELSE LET elem == Head(elems)
             announcers == o.orphans[elem].announcers
         IN IF announcers = {} THEN o
            ELSE AddElemsToWorkSet(
                    [o EXCEPT !.workSet =
                        [p \in (DOMAIN o.workSet) \cup announcers |->
                            (IF p \in DOMAIN o.workSet THEN o.workSet[p] ELSE {})
                            \cup (IF p \in announcers THEN {elem} ELSE {})]],
                    Tail(elems))

\* txorphanage.cpp:164-184, from output i on
RECURSIVE AddChildrenToWorkSetFrom(_, _, _)
AddChildrenToWorkSetFrom(o, tx, i) ==
    IF i >= tx.vout THEN o
    ELSE LET prevout == COutPoint(tx.txid, i)
         IN AddChildrenToWorkSetFrom(
                IF prevout \in DOMAIN o.byPrev
                THEN AddElemsToWorkSet(o, Ascending(o.byPrev[prevout]))
                ELSE o,
                tx, i + 1)

AddChildrenToWorkSet ==
    /\ SetOrphanage(AddChildrenToWorkSetFrom(Orphanage, ParentTx, 0))
    /\ last' = [op |-> "AddChildrenToWorkSet"]
    /\ UNCHANGED nodeClock

\* txorphanage.cpp:202-210; ret is the wtxid of the transaction returned, 0
\* for nullptr.
\* txorphanage.cpp:206-207 finding every wtxid
FoundAlways(o, wtxid) == TRUE

\* txorphanage.cpp:206-207: orphan_it != m_orphans.end()
Found(o, wtxid) == wtxid \in DOMAIN o.orphans

RECURSIVE ReconsiderLoop(_, _)
ReconsiderLoop(o, peer) ==
    IF o.workSet[peer] = {}
    THEN [ret |-> 0, o |-> o]
    ELSE LET wtxid == Head(Ascending(o.workSet[peer]))
             o1 == [o EXCEPT !.workSet[peer] = @ \ {wtxid}]
         IN IF Found(o1, wtxid)
            THEN [ret |-> wtxid, o |-> o1]
            ELSE ReconsiderLoop(o1, peer)

\* txorphanage.cpp:197-213
GetTxToReconsiderResult(o, peer) ==
    IF peer \in DOMAIN o.workSet THEN ReconsiderLoop(o, peer) ELSE [ret |-> 0, o |-> o]

GetTxToReconsiderCall(peer) ==
    \E r \in {GetTxToReconsiderResult(Orphanage, peer)} :
       /\ SetOrphanage(r.o)
       /\ last' = [op |-> "GetTxToReconsider", ret |-> r.ret]
       /\ UNCHANGED nodeClock

GetTxToReconsider == \E peer \in Peers : GetTxToReconsiderCall(peer)

\* txorphanage.cpp:229-241: the entries spending an input of the block, one
\* after the other as the loops meet them.
RECURSIVE OrphansSpending(_, _)
OrphansSpending(o, vin) ==
    IF vin = << >> THEN << >>
    ELSE (IF Head(vin) \in DOMAIN o.byPrev THEN Ascending(o.byPrev[Head(vin)]) ELSE << >>)
         \o OrphansSpending(o, Tail(vin))

\* txorphanage.cpp:229-241 looking at the first transaction of the block only
OrphansSpendingFirstTx(o, vtx) ==
    IF vtx = << >> THEN << >> ELSE OrphansSpending(o, Head(vtx).vin)

RECURSIVE OrphansSpendingBlock(_, _)
OrphansSpendingBlock(o, vtx) ==
    IF vtx = << >> THEN << >>
    ELSE OrphansSpending(o, Head(vtx).vin) \o OrphansSpendingBlock(o, Tail(vtx))

\* txorphanage.cpp:244-250
RECURSIVE EraseAll(_, _)
EraseAll(o, vOrphanErase) ==
    IF vOrphanErase = << >>
    THEN [o |-> o, aborted |-> FALSE]
    ELSE LET e == EraseTxResult(o, Head(vOrphanErase))
         IN IF e.aborted THEN [o |-> e.o, aborted |-> TRUE]
            ELSE EraseAll(e.o, Tail(vOrphanErase))

\* txorphanage.cpp:225-253
EraseForBlockResult(o, block) ==
    LET vOrphanErase == OrphansSpendingBlock(o, block)
        r == EraseAll(o, vOrphanErase)
    IN [ret |-> vOrphanErase, o |-> r.o, aborted |-> r.aborted]

EraseForBlockCall(block) ==
    \E r \in {EraseForBlockResult(Orphanage, block)} :
       /\ ~r.aborted
       /\ SetOrphanage(r.o)
       /\ last' = [op |-> "EraseForBlock", ret |-> r.ret]
       /\ UNCHANGED nodeClock

EraseForBlock == \E block \in Blocks : EraseForBlockCall(block)

\* The node's clock, Now<NodeSeconds>(), moves on.
\* txorphanage.cpp:262-271: the entries spending the outputs of the parent
\* from output i on that nodeid announced, one per output spent.
RECURSIVE ItersFrom(_, _, _, _)
ItersFrom(o, parent, nodeid, i) ==
    IF i >= parent.vout THEN << >>
    ELSE LET prevout == COutPoint(parent.txid, i)
             elems == IF prevout \in DOMAIN o.byPrev
                      THEN Ascending(o.byPrev[prevout]) ELSE << >>
         IN SelectSeq(elems, LAMBDA elem : nodeid \in o.orphans[elem].announcers)
            \o ItersFrom(o, parent, nodeid, i + 1)

\* The places the map's nodes can have in memory, which the allocator
\* chooses: the wtxids in a row, upwards or downwards, from any start (with
\* three orphans held, every order of them).
Addresses ==
    {[w \in Wtxids |-> ((w + shift) % NumTxs) + 1] : shift \in 0..(NumTxs - 1)}
    \cup {[w \in Wtxids |-> NumTxs - ((w + shift) % NumTxs)] : shift \in 0..(NumTxs - 1)}

\* txorphanage.cpp:276-282, the comparison of the sort
SortsBefore(o, addr, lhs, rhs) ==
    IF o.orphans[lhs].nTimeExpire = o.orphans[rhs].nTimeExpire
    THEN addr[lhs] < addr[rhs]
    ELSE o.orphans[lhs].nTimeExpire > o.orphans[rhs].nTimeExpire

\* txorphanage.cpp:276: elem put into a sorted sequence
RECURSIVE SortedInsert(_, _, _, _)
SortedInsert(o, addr, sorted, elem) ==
    IF sorted = << >> THEN <<elem>>
    ELSE IF SortsBefore(o, addr, elem, Head(sorted)) THEN <<elem>> \o sorted
    ELSE <<Head(sorted)>> \o SortedInsert(o, addr, Tail(sorted), elem)

\* txorphanage.cpp:276-283, std::sort
RECURSIVE Sort(_, _, _)
Sort(o, addr, iters) ==
    IF iters = << >> THEN << >>
    ELSE SortedInsert(o, addr, Sort(o, addr, Tail(iters)), Head(iters))

\* txorphanage.cpp:285 without the erase
KeepDuplicates(iters) == iters

\* txorphanage.cpp:285, std::unique: of equal neighbours the first is kept
Unique(iters) ==
    LET kept == SelectSeq([i \in DOMAIN iters |-> <<i, iters[i]>>],
                          LAMBDA e : e[1] = 1 \/ iters[e[1] - 1] # e[2])
    IN [i \in DOMAIN kept |-> kept[i][2]]

\* txorphanage.cpp:255-293; the transactions returned, by wtxid
GetChildrenFromSamePeerResult(o, parent, nodeid, addr) ==
    Unique(Sort(o, addr, ItersFrom(o, parent, nodeid, 0)))

GetChildrenFromSamePeerCall(nodeid, addr) ==
    /\ last' = [op |-> "GetChildrenFromSamePeer", nodeid |-> nodeid,
                ret |-> GetChildrenFromSamePeerResult(Orphanage, ParentTx, nodeid, addr)]
    /\ UNCHANGED orphanVars

GetChildrenFromSamePeer ==
    \E nodeid \in Peers, addr \in Addresses : GetChildrenFromSamePeerCall(nodeid, addr)

AdvanceClock ==
    /\ nodeClock < MaxClock
    /\ nodeClock' = nodeClock + 1
    /\ last' = [op |-> "AdvanceClock"]
    /\ UNCHANGED <<m_orphans, m_orphan_list, m_outpoint_to_orphan_it, m_peer_work_set,
                   m_next_sweep>>

\* The clock moves on, to beyond the expiry of what was added.
TimePasses ==
    /\ nodeClock < MaxSweepClock
    /\ nodeClock' = nodeClock + 1
    /\ last' = [op |-> "TimePasses"]
    /\ UNCHANGED <<m_orphans, m_orphan_list, m_outpoint_to_orphan_it, m_peer_work_set,
                   m_next_sweep>>

\* The clock read ORPHAN_TX_EXPIRE_TIME later: what was held has expired.
ExpireTimePasses ==
    /\ nodeClock + ORPHAN_TX_EXPIRE_TIME <= MaxClock
    /\ nodeClock' = nodeClock + ORPHAN_TX_EXPIRE_TIME
    /\ last' = [op |-> "ExpireTimePasses"]
    /\ UNCHANGED <<m_orphans, m_orphan_list, m_outpoint_to_orphan_it, m_peer_work_set,
                   m_next_sweep>>

\* --------------------------------------------------------- specifications
AllIdle == [t \in Threads |-> Idle]

\* The orphanage as constructed.
NoOrphans ==
    /\ m_orphans = Empty
    /\ m_orphan_list = << >>
    /\ m_outpoint_to_orphan_it = Empty
    /\ m_peer_work_set = Empty
    /\ m_next_sweep = 0
    /\ nodeClock = 0

\* The manager as constructed.
Init ==
    /\ mapSporksActive = Empty
    /\ mapSporksByHash = Empty
    /\ setSporkPubKeyIDs = {}
    /\ nMinSporkKeys = UnsetMinSporkKeys
    /\ sporkPrivKey = NoKey
    /\ mapSporksCachedActive = Empty
    /\ mapSporksCachedValues = Empty
    /\ adjustedTime = 0
    /\ thread = AllIdle
    /\ NoOrphans
    /\ last = [op |-> "init"]

\* The thresholds SetMinSporkKeys accepts for a set of spork addresses.
ValidThresholds(authorized) ==
    {n \in 1..NumKeys : ~MinSporkKeysInvalid(n, Cardinality(authorized))}

\* The manager as init leaves it: some spork addresses set, then a threshold.
InitConfigured ==
    /\ mapSporksActive = Empty
    /\ mapSporksByHash = Empty
    /\ setSporkPubKeyIDs \in (SUBSET Keys) \ {{}}
    /\ nMinSporkKeys \in ValidThresholds(setSporkPubKeyIDs)
    /\ sporkPrivKey = NoKey
    /\ mapSporksCachedActive = Empty
    /\ mapSporksCachedValues = Empty
    /\ adjustedTime = 0
    /\ thread = AllIdle
    /\ NoOrphans
    /\ last = [op |-> "init"]

\* The configured manager of a node that signs with key 1.
InitSigner ==
    /\ mapSporksActive = Empty
    /\ mapSporksByHash = Empty
    /\ setSporkPubKeyIDs = Keys
    /\ nMinSporkKeys \in ValidThresholds(Keys)
    /\ sporkPrivKey = 1
    /\ mapSporksCachedActive = Empty
    /\ mapSporksCachedValues = Empty
    /\ adjustedTime = 0
    /\ thread = AllIdle
    /\ NoOrphans
    /\ last = [op |-> "init"]

\* What a call run alone leaves as it is.
others == <<thread, orphanVars>>

\* The life of a configured manager: sporks arrive and are queried, signers
\* are deauthorized, the maps are checked and cleared.
Next ==
    \/ ProcessSpork(PeerSporks) /\ UNCHANGED others
    \/ GetSporkValue /\ UNCHANGED others
    \/ IsSporkActive /\ UNCHANGED others
    \/ Clear /\ UNCHANGED others
    \/ CheckAndRemove /\ UNCHANGED others
    \/ DeauthorizeSigner /\ UNCHANGED others
    \/ ClockTick /\ UNCHANGED others

Spec == InitConfigured /\ [][Next]_vars

\* Sporks arrive from peers and are queried; nothing else happens.
NextIntake ==
    \/ ProcessSpork(PeerSporks) /\ UNCHANGED others
    \/ GetSporkValue /\ UNCHANGED others
    \/ IsSporkActive /\ UNCHANGED others
    \/ ClockTick /\ UNCHANGED others

SpecIntake == InitConfigured /\ [][NextIntake]_vars

\* The manager is configured from scratch.
NextConfig ==
    \/ SetSporkAddress /\ UNCHANGED others
    \/ SetMinSporkKeys /\ UNCHANGED others
    \/ SetPrivKey /\ UNCHANGED others
    \/ GetSporkValue /\ UNCHANGED others

SpecConfig == Init /\ [][NextConfig]_vars

\* Spork addresses and thresholds are set in any order while sporks arrive
\* and are queried.
NextSetup ==
    \/ SetSporkAddress /\ UNCHANGED others
    \/ SetMinSporkKeys /\ UNCHANGED others
    \/ ProcessSpork(PeerSporks) /\ UNCHANGED others
    \/ GetSporkValue /\ UNCHANGED others

SpecSetup == Init /\ [][NextSetup]_vars

\* The node signs sporks itself, and peers send theirs.
NextSigner ==
    \/ UpdateSpork /\ UNCHANGED others
    \/ ProcessSpork(RaceSporks) /\ UNCHANGED others
    \/ GetSporkValue /\ UNCHANGED others
    \/ IsSporkActive /\ UNCHANGED others
    \/ ClockTick /\ UNCHANGED others

SpecSigner == InitSigner /\ [][NextSigner]_vars

\* The threads of the message handler run their calls concurrently.
NextThreads ==
    \/ \E t \in Threads : PS_Begin(t) /\ UNCHANGED <<orphanVars, last>>
    \/ \E t \in Threads : PS_Received(t) /\ UNCHANGED <<orphanVars, last>>
    \/ \E t \in Threads : PS_RejectFuture(t) /\ UNCHANGED <<orphanVars, last>>
    \/ \E t \in Threads : PS_GetSigner(t) /\ UNCHANGED <<orphanVars, last>>
    \/ \E t \in Threads : PS_RejectSignature(t) /\ UNCHANGED <<orphanVars, last>>
    \/ \E t \in Threads : PS_LockSeen(t) /\ UNCHANGED <<orphanVars, last>>
    \/ \E t \in Threads : PS_CheckSeen(t) /\ UNCHANGED <<orphanVars, last>>
    \/ \E t \in Threads : PS_ForgetSeen(t) /\ UNCHANGED <<orphanVars, last>>
    \/ \E t \in Threads : LockStore(t) /\ UNCHANGED <<orphanVars, last>>
    \/ \E t \in Threads : StoreStep(t) /\ UNCHANGED <<orphanVars, last>>
    \/ \E t \in Threads : RelayStep(t) /\ UNCHANGED <<orphanVars, last>>
    \/ \E t \in Threads : US_Begin(t) /\ UNCHANGED <<orphanVars, last>>
    \/ \E t \in Threads : GS_Lock(t) /\ UNCHANGED <<orphanVars, last>>
    \/ \E t \in Threads : GS_PushMessages(t) /\ UNCHANGED <<orphanVars, last>>
    \/ \E t \in Threads : GH_Lock(t) /\ UNCHANGED <<orphanVars, last>>
    \/ \E t \in Threads : GH_Find(t) /\ UNCHANGED <<orphanVars, last>>
    \/ Tick /\ UNCHANGED <<thread, orphanVars, last>>

SpecThreads == InitSigner /\ [][NextThreads]_vars

\* LOCK(cs) by a caller that is none of the threads: no thread holds cs.
CsFreeForAll == \A t \in Threads : "cs" \notin thread[t].held

\* The threads run ProcessSpork and UpdateSpork while the authorized set
\* changes and CheckAndRemove runs, each of the two under cs from its first
\* statement to its last.
NextRotation ==
    \/ \E t \in Threads : PS_Begin(t) /\ UNCHANGED <<orphanVars, last>>
    \/ \E t \in Threads : PS_Received(t) /\ UNCHANGED <<orphanVars, last>>
    \/ \E t \in Threads : PS_RejectFuture(t) /\ UNCHANGED <<orphanVars, last>>
    \/ \E t \in Threads : PS_GetSigner(t) /\ UNCHANGED <<orphanVars, last>>
    \/ \E t \in Threads : PS_RejectSignature(t) /\ UNCHANGED <<orphanVars, last>>
    \/ \E t \in Threads : PS_LockSeen(t) /\ UNCHANGED <<orphanVars, last>>
    \/ \E t \in Threads : PS_CheckSeen(t) /\ UNCHANGED <<orphanVars, last>>
    \/ \E t \in Threads : PS_ForgetSeen(t) /\ UNCHANGED <<orphanVars, last>>
    \/ \E t \in Threads : LockStore(t) /\ UNCHANGED <<orphanVars, last>>
    \/ \E t \in Threads : StoreStep(t) /\ UNCHANGED <<orphanVars, last>>
    \/ \E t \in Threads : RelayStep(t) /\ UNCHANGED <<orphanVars, last>>
    \/ \E t \in Threads : US_Begin(t) /\ UNCHANGED <<orphanVars, last>>
    \/ CsFreeForAll /\ DeauthorizeSigner /\ UNCHANGED others
    \/ CsFreeForAll /\ CheckAndRemove /\ UNCHANGED others

SpecRotation == InitSigner /\ [][NextRotation]_vars

\* The threads run ProcessSpork while spork values are queried, and memoized,
\* under cs.
NextRelay ==
    \/ \E t \in Threads : PS_Begin(t) /\ UNCHANGED <<orphanVars, last>>
    \/ \E t \in Threads : PS_Received(t) /\ UNCHANGED <<orphanVars, last>>
    \/ \E t \in Threads : PS_RejectFuture(t) /\ UNCHANGED <<orphanVars, last>>
    \/ \E t \in Threads : PS_GetSigner(t) /\ UNCHANGED <<orphanVars, last>>
    \/ \E t \in Threads : PS_RejectSignature(t) /\ UNCHANGED <<orphanVars, last>>
    \/ \E t \in Threads : PS_LockSeen(t) /\ UNCHANGED <<orphanVars, last>>
    \/ \E t \in Threads : PS_CheckSeen(t) /\ UNCHANGED <<orphanVars, last>>
    \/ \E t \in Threads : PS_ForgetSeen(t) /\ UNCHANGED <<orphanVars, last>>
    \/ \E t \in Threads : LockStore(t) /\ UNCHANGED <<orphanVars, last>>
    \/ \E t \in Threads : StoreStep(t) /\ UNCHANGED <<orphanVars, last>>
    \/ \E t \in Threads : RelayStep(t) /\ UNCHANGED <<orphanVars, last>>
    \/ CsFreeForAll /\ IsSporkActive /\ UNCHANGED others
    \/ Tick /\ UNCHANGED <<thread, orphanVars, last>>

SpecRelay == InitConfigured /\ [][NextRelay]_vars

\* What a call of the orphanage leaves as it is.
sporkSide == <<sporkVars, thread>>

\* Peers announce orphans and disconnect, parents arrive, blocks connect.
NextOrphan ==
    \/ AddTx(Peers) /\ UNCHANGED sporkSide
    \/ EraseForPeer /\ UNCHANGED sporkSide
    \/ AddChildrenToWorkSet /\ UNCHANGED sporkSide
    \/ GetTxToReconsider /\ UNCHANGED sporkSide
    \/ EraseForBlock /\ UNCHANGED sporkSide

SpecOrphan == Init /\ [][NextOrphan]_vars

\* One peer announces orphans while time passes and the pool is limited.
NextExpiry ==
    \/ AddTx({1}) /\ UNCHANGED sporkSide
    \/ EraseTx /\ UNCHANGED sporkSide
    \/ LimitOrphans /\ UNCHANGED sporkSide
    \/ AdvanceClock /\ UNCHANGED sporkSide

SpecExpiry == Init /\ [][NextExpiry]_vars

\* One peer announces orphans and the pool is limited, for longer than an
\* orphan lives.
NextSweep ==
    \/ AddTx({1}) /\ UNCHANGED sporkSide
    \/ LimitOrphans /\ UNCHANGED sporkSide
    \/ TimePasses /\ UNCHANGED sporkSide

SpecSweep == Init /\ [][NextSweep]_vars

\* Every operation that changes the pool, in any sequence, while time passes.
NextPool ==
    \/ AddTx(Peers) /\ UNCHANGED sporkSide
    \/ AddAnnouncer /\ UNCHANGED sporkSide
    \/ EraseTx /\ UNCHANGED sporkSide
    \/ EraseForPeer /\ UNCHANGED sporkSide
    \/ EraseOrphanOfPeer /\ UNCHANGED sporkSide
    \/ EraseForBlock /\ UNCHANGED sporkSide
    \/ LimitOrphans /\ UNCHANGED sporkSide
    \/ ExpireTimePasses /\ UNCHANGED sporkSide

SpecPool == Init /\ [][NextPool]_vars

\* Peers announce orphans at different times and are asked for the children
\* of the parent.
NextChildren ==
    \/ AddTx(Peers) /\ UNCHANGED sporkSide
    \/ GetChildrenFromSamePeer /\ UNCHANGED sporkSide
    \/ AdvanceClock /\ UNCHANGED sporkSide

SpecChildren == Init /\ [][NextChildren]_vars

\* ------------------------------------------------------------------ claims
\* The signers of spork s whose stored message carries value v.
Carriers(s, v) ==
    IF s \in DOMAIN mapSporksActive
    THEN {k \in DOMAIN mapSporksActive[s] : mapSporksActive[s][k].nValue = v}
    ELSE {}

\* The values carried by at least nMinSporkKeys signers of spork s.
Winners(s) == {v \in Values : Cardinality(Carriers(s, v)) >= nMinSporkKeys}

\* What GetSporkValue(s) returns now, the signers walked in this order.
ValueNow(s, order) == GetSporkValueResult(Maps, s, nMinSporkKeys, order).value

\* C1: while only sporks are processed, under a threshold of more than half
\* of the authorized keys, GetSporkValue(s) returns a signed value v exactly
\* when at least nMinSporkKeys signers of active[s] carry v, and otherwise the
\* default of s, or -1 when s has none.
C1_ValueIffThreshold ==
    \A s \in SporkIDs : \A order \in WalksOf(Maps, s) :
        /\ \A v \in Values : (ValueNow(s, order) = v) <=> (v \in Winners(s))
        /\ Winners(s) = {} =>
              ValueNow(s, order) = (IF s = 1 THEN 1000000 ELSE -1)

\* C1's case: a value was returned from the cache while another signer of
\* the spork carries a different value.
C1_Witness ==
    /\ last.op = "GetSporkValue"
    /\ last.ret \in Values
    /\ 1 \in DOMAIN mapSporksCachedValues
    /\ mapSporksCachedValues[1] = last.ret
    /\ \E k \in DOMAIN mapSporksActive[1] : mapSporksActive[1][k].nValue # last.ret

\* C2: the timeSigned stored for a (sporkID, signer) never decreases, however
\* the threads' ProcessSpork and UpdateSpork calls interleave.
C2_TimeSignedNeverDecreases ==
    [][\A s \in SporkIDs, k \in Keys :
          (/\ s \in DOMAIN mapSporksActive /\ k \in DOMAIN mapSporksActive[s]
           /\ s \in DOMAIN mapSporksActive' /\ k \in DOMAIN mapSporksActive'[s])
          => mapSporksActive'[s][k].nTimeSigned >= mapSporksActive[s][k].nTimeSigned]_vars

\* C3: a thread about to lock cs_main, to call the peer manager or to call
\* Relay does not hold cs.
C3_CsNotHeldOutside ==
    \A t \in Threads :
        thread[t].pc \in (LocksCsMain \cup CallsPeerManager) => "cs" \notin thread[t].held

\* C3's case: one thread is inside a cs block while another is about to
\* relay the spork it has stored.
C3_Witness ==
    \E t, u \in Threads :
        /\ "cs" \in thread[t].held
        /\ thread[u].pc = "Relay"
        /\ thread[u].held = {}

\* A spork ProcessSpork must reject: signed too far ahead, or by no
\* authorized key.
MustReject(spork) ==
    \/ spork.nTimeSigned > adjustedTime + MaxFutureSkew
    \/ spork.vchSig = BadSig
    \/ spork.vchSig \notin setSporkPubKeyIDs

MapsUnchanged ==
    UNCHANGED <<mapSporksActive, mapSporksByHash, mapSporksCachedActive, mapSporksCachedValues>>

\* C4 as stated: a spork signed later than now + 2h, or by no authorized
\* key, changes none of the maps, is not relayed, and the peer is scored 100.
C4_RejectedScores100 ==
    [][\A spork \in PeerSporks, peer \in BOOLEAN :
          (ProcessSporkCall(spork, peer) /\ MustReject(spork))
          => (MapsUnchanged /\ last'.relayed = 0 /\ last'.score = 100)]_vars

\* C4 amended: such a spork changes none of the maps and is not relayed; the
\* peer is scored 100 when GetPeerRef found it, and not scored otherwise.
C4_RejectedScoresKnownPeer ==
    [][\A spork \in PeerSporks, peer \in BOOLEAN :
          (ProcessSporkCall(spork, peer) /\ MustReject(spork))
          => (/\ MapsUnchanged
              /\ last'.relayed = 0
              /\ last'.score = (IF peer THEN 100 ELSE 0))]_vars

\* C4's case: a spork was rejected for its signature and the peer scored,
\* with sporks stored and values cached.
C4_Witness ==
    /\ last.op = "ProcessSpork"
    /\ last.outcome = "signature"
    /\ last.score = 100
    /\ mapSporksByHash # Empty
    /\ mapSporksCachedValues # Empty
    /\ mapSporksCachedActive # Empty

\* The message stored for the spork's (sporkID, signer) is as new as the spork.
StoredAsNew(spork) ==
    /\ spork.vchSig # BadSig
    /\ spork.nSporkID \in DOMAIN mapSporksActive
    /\ spork.vchSig \in DOMAIN mapSporksActive[spork.nSporkID]
    /\ mapSporksActive[spork.nSporkID][spork.vchSig].nTimeSigned >= spork.nTimeSigned

\* C5: a spork whose (sporkID, signer) has a stored message of the same or a
\* later timeSigned changes none of the maps, whatever its value; and after
\* any ProcessSpork of a spork, processing the same spork again changes nothing.
C5_OlderOrTieIsNoOp ==
    [][\A spork \in PeerSporks, peer \in BOOLEAN :
          ProcessSporkCall(spork, peer)
          => /\ StoredAsNew(spork) => MapsUnchanged /\ last'.relayed = 0
             /\ LET after == [active |-> mapSporksActive', byHash |-> mapSporksByHash',
                              cachedActive |-> mapSporksCachedActive',
                              cachedValues |-> mapSporksCachedValues']
                IN ProcessSporkResult(after, spork, adjustedTime', setSporkPubKeyIDs', peer).maps
                     = after]_vars

\* C5's case: a spork was dropped as seen while the stored message of its
\* signer has the same timeSigned as a spork of another value.
C5_Witness ==
    /\ last.op = "ProcessSpork"
    /\ last.outcome = "seen"
    /\ \E spork \in PeerSporks :
          /\ StoredAsNew(spork)
          /\ mapSporksActive[spork.nSporkID][spork.vchSig].nTimeSigned = spork.nTimeSigned
          /\ mapSporksActive[spork.nSporkID][spork.vchSig].nValue # spork.nValue

\* C6: IsSporkActive(s) returns true exactly when GetSporkValue(s) is less
\* than the adjusted time.
C6_ActiveIffValueBeforeNow ==
    \A s \in SporkIDs : \A order \in WalksOf(Maps, s) :
        IsSporkActiveResult(Maps, s, nMinSporkKeys, order, adjustedTime).ret
            <=> (ValueNow(s, order) < adjustedTime)

\* The messages held in mapSporksActive.
ActiveMessages(active) == UNION {{active[s][k] : k \in DOMAIN active[s]} : s \in DOMAIN active}
ByHashMessages(byHash) == {byHash[h] : h \in DOMAIN byHash}

\* C7: when CheckAndRemove returns, no message signed by a key outside the
\* authorized set is left in active or byHash, no sporkID of active has an
\* empty signer map, and every message signed by an authorized key is where
\* it was, in both maps.
C7_CheckAndRemove ==
    [][last'.op = "CheckAndRemove" =>
          /\ \A m \in ActiveMessages(mapSporksActive') \cup ByHashMessages(mapSporksByHash') :
                m.vchSig \in setSporkPubKeyIDs
          /\ \A s \in DOMAIN mapSporksActive' : DOMAIN mapSporksActive'[s] # {}
          /\ \A s \in DOMAIN mapSporksActive : \A k \in DOMAIN mapSporksActive[s] :
                mapSporksActive[s][k].vchSig \in setSporkPubKeyIDs
                => /\ s \in DOMAIN mapSporksActive'
                   /\ k \in DOMAIN mapSporksActive'[s]
                   /\ mapSporksActive'[s][k] = mapSporksActive[s][k]
          /\ \A h \in DOMAIN mapSporksByHash :
                mapSporksByHash[h].vchSig \in setSporkPubKeyIDs
                => h \in DOMAIN mapSporksByHash' /\ mapSporksByHash'[h] = mapSporksByHash[h]]_vars

\* C7's case: CheckAndRemove erased messages of a deauthorized signer, and
\* messages of authorized signers are still stored.
C7_Witness ==
    /\ last.op = "CheckAndRemove"
    /\ last.erased >= 2
    /\ setSporkPubKeyIDs # Keys
    /\ mapSporksActive # Empty
    /\ Cardinality(DOMAIN mapSporksByHash) >= 2

\* The orphanage after a step.
OrphanageAfter == [orphans |-> m_orphans', list |-> m_orphan_list',
                   byPrev |-> m_outpoint_to_orphan_it', workSet |-> m_peer_work_set',
                   nextSweep |-> m_next_sweep']

\* C8: LimitOrphans returns, with at most max_orphans entries left; the list
\* it returns holds the wtxid of every entry it removed, each once, and of
\* nothing else, so it is as long as the pool has shrunk.
C8_LimitOrphans ==
    [][last'.op = "LimitOrphans" =>
          /\ last'.returned
          /\ Cardinality(DOMAIN m_orphans') <= last'.max_orphans
          /\ {last'.ret[i] : i \in DOMAIN last'.ret} = (DOMAIN m_orphans) \ (DOMAIN m_orphans')
          /\ \A i, j \in DOMAIN last'.ret : last'.ret[i] = last'.ret[j] => i = j
          /\ DOMAIN m_orphans' \subseteq DOMAIN m_orphans
          /\ Len(last'.ret) = Cardinality(DOMAIN m_orphans) - Cardinality(DOMAIN m_orphans')]_vars

\* C8's case: LimitOrphans has removed expired entries, evicted others and
\* left some.
C8_Witness ==
    /\ last.op = "LimitOrphans"
    /\ last.nEvicted >= 1
    /\ Len(last.ret) > last.nEvicted
    /\ m_orphans # Empty

\* How often wtxid is in m_orphan_list.
TimesInList(list, wtxid) == Cardinality({i \in DOMAIN list : list[i] = wtxid})

\* C9: AddTx of a transaction that is not held and not over
\* MAX_STANDARD_TX_WEIGHT returns true, and AddTx of it for a second peer then
\* returns false and leaves one entry, announced by both peers; AddTx of a held
\* transaction returns false and changes the entry's announcers only; AddTx of
\* a transaction that is not held and over the weight returns false and
\* changes nothing.
C9_AddTxTwice ==
    [][\A w \in Wtxids, p1 \in Peers :
          AddTxCall(w, p1) =>
             IF w \in DOMAIN m_orphans
             THEN /\ last'.ret = FALSE
                  /\ m_orphans' = [m_orphans EXCEPT ![w].announcers = @ \cup {p1}]
                  /\ UNCHANGED <<m_orphan_list, m_outpoint_to_orphan_it, m_peer_work_set,
                                 m_next_sweep>>
             ELSE IF Tx(w).weight > MAX_STANDARD_TX_WEIGHT
             THEN last'.ret = FALSE /\ UNCHANGED orphanVars
             ELSE /\ last'.ret = TRUE
                  /\ DOMAIN m_orphans' = (DOMAIN m_orphans) \cup {w}
                  /\ \A p2 \in Peers :
                        LET second == AddTxResult(OrphanageAfter, Tx(w), p2, nodeClock')
                        IN /\ second.ret = FALSE
                           /\ DOMAIN second.o.orphans = DOMAIN m_orphans'
                           /\ second.o.orphans[w].announcers = {p1, p2}
                           /\ TimesInList(second.o.list, w) = 1
                           /\ second.o = [OrphanageAfter EXCEPT
                                             !.orphans[w].announcers = {p1, p2}]]_vars

\* C9's case: a second AddTx of a transaction has returned false and both
\* peers announce it, next to another orphan.
C9_Witness ==
    /\ last.op = "AddTx"
    /\ last.ret = FALSE
    /\ \E w \in DOMAIN m_orphans : m_orphans[w].announcers = Peers
    /\ Len(m_orphan_list) >= 2

\* C10: EraseForPeer(p) leaves no work set of p; the entries that only p
\* announced are gone; every other entry is still held, announced by whom it
\* was but p; no entry names p; the work sets of the other peers are as they
\* were; and EraseForPeer(p) once more changes nothing.
C10_EraseForPeer ==
    [][\A p \in Peers :
          EraseForPeerCall(p) =>
             /\ p \notin DOMAIN m_peer_work_set'
             /\ \A q \in Peers \ {p} :
                   /\ q \in DOMAIN m_peer_work_set' <=> q \in DOMAIN m_peer_work_set
                   /\ q \in DOMAIN m_peer_work_set => m_peer_work_set'[q] = m_peer_work_set[q]
             /\ DOMAIN m_orphans' \subseteq DOMAIN m_orphans
             /\ \A w \in DOMAIN m_orphans :
                   IF m_orphans[w].announcers = {p}
                   THEN w \notin DOMAIN m_orphans'
                   ELSE /\ w \in DOMAIN m_orphans'
                        /\ m_orphans'[w].announcers = m_orphans[w].announcers \ {p}
                        /\ m_orphans'[w].nTimeExpire = m_orphans[w].nTimeExpire
                        /\ TimesInList(m_orphan_list', w) = 1
             /\ \A w \in DOMAIN m_orphans' : p \notin m_orphans'[w].announcers
             /\ EraseForPeerResult(OrphanageAfter, p).o = OrphanageAfter]_vars

\* C10's case: EraseForPeer has erased an entry and left another, and the
\* other peer has transactions to reconsider.
C10_Witness ==
    /\ last.op = "EraseForPeer"
    /\ last.nErased >= 1
    /\ m_orphans # Empty
    /\ \E q \in Peers \ {last.peer} :
          q \in DOMAIN m_peer_work_set /\ m_peer_work_set[q] # {}

\* The wtxids peer p has to reconsider, before and after a step.
WorkSetOf(workSet, p) == IF p \in DOMAIN workSet THEN workSet[p] ELSE {}

\* The orphans that spend an output of the parent and that p announces.
ChildrenOf(p) ==
    {w \in DOMAIN m_orphans :
        /\ p \in m_orphans[w].announcers
        /\ \E i \in 0..(ParentTx.vout - 1) : COutPoint(ParentTx.txid, i) \in Prevouts(Tx(w))}

\* C11: AddChildrenToWorkSet puts the children p announces into p's work set,
\* and no other call adds to a work set; GetTxToReconsider(p) returns a
\* transaction of p's work set that is held, takes it out of the work set
\* (so it is not returned again), leaves the other held ones in it, and
\* returns nothing, the work set drained, when none of them is held.
C11_WorkSetDrains ==
    [][\A p \in Peers :
          LET before == WorkSetOf(m_peer_work_set, p)
              after == WorkSetOf(m_peer_work_set', p)
              held == before \cap DOMAIN m_orphans
          IN /\ last'.op = "AddChildrenToWorkSet" => after = before \cup ChildrenOf(p)
             /\ last'.op # "AddChildrenToWorkSet" => after \subseteq before
             /\ GetTxToReconsiderCall(p) =>
                   /\ UNCHANGED <<m_orphans, m_orphan_list, m_outpoint_to_orphan_it>>
                   /\ IF held = {}
                      THEN last'.ret = 0 /\ after = {}
                      ELSE /\ last'.ret \in held
                           /\ last'.ret \notin after
                           /\ held \ {last'.ret} \subseteq after]_vars

\* C11's case: GetTxToReconsider has returned an orphan and emptied the work
\* set of a peer, while the other peer still has an orphan to reconsider that
\* is no longer held.
C11_Witness ==
    /\ last.op = "GetTxToReconsider"
    /\ last.ret \in DOMAIN m_orphans
    /\ \E p, q \in DOMAIN m_peer_work_set :
          /\ m_peer_work_set[p] = {}
          /\ m_peer_work_set[q] \ DOMAIN m_orphans # {}

\* The outpoints the transactions of a block spend.
SpentBy(block) == UNION {Prevouts(block[i]) : i \in DOMAIN block}

\* The orphans that spend none of the outpoints.
Unrelated(spent) == {w \in DOMAIN m_orphans : Prevouts(Tx(w)) \cap spent = {}}

\* What EraseForBlock(block) erases and returns: no orphan left spends an
\* outpoint the block spends, and every wtxid erased is in the list returned.
ErasesConflicts(block) ==
    /\ \A w \in DOMAIN m_orphans' : Prevouts(Tx(w)) \cap SpentBy(block) = {}
    /\ DOMAIN m_orphans' \subseteq DOMAIN m_orphans
    /\ (DOMAIN m_orphans) \ (DOMAIN m_orphans') \subseteq {last'.ret[i] : i \in DOMAIN last'.ret}

\* C12 as stated: after EraseForBlock no orphan left spends an outpoint the
\* block spends, every wtxid erased is in the list returned, and every orphan
\* that spends no outpoint of the block has its entry unchanged.
C12_UnrelatedUnchanged ==
    [][\A block \in Blocks :
          EraseForBlockCall(block) =>
             /\ ErasesConflicts(block)
             /\ \A w \in Unrelated(SpentBy(block)) :
                   w \in DOMAIN m_orphans' /\ m_orphans'[w] = m_orphans[w]]_vars

\* C12 amended: ... and every orphan that spends no outpoint of the block is
\* still held, with its announcers and expiry unchanged; its list_pos is the
\* place it now has in m_orphan_list, which EraseTx may have changed.
C12_UnrelatedKeptMaybeMoved ==
    [][\A block \in Blocks :
          EraseForBlockCall(block) =>
             /\ ErasesConflicts(block)
             /\ \A w \in Unrelated(SpentBy(block)) :
                   /\ w \in DOMAIN m_orphans'
                   /\ m_orphans'[w] = [m_orphans[w] EXCEPT !.list_pos = m_orphans'[w].list_pos]
                   /\ m_orphan_list'[m_orphans'[w].list_pos + 1] = w]_vars

\* C12's case: EraseForBlock has erased orphans, and an orphan the block does
\* not conflict with is left, now first in m_orphan_list.
C12_Witness ==
    /\ last.op = "EraseForBlock"
    /\ Len(last.ret) >= 2
    /\ \E w \in DOMAIN m_orphans :
          /\ Prevouts(Tx(w)) = {COutPoint(ParentTx.txid, 1)}
          /\ m_orphans[w].list_pos = 0

\* The held orphans that spend an output of the parent and that peer p
\* announced: ChildrenOf(p). Where they stand in a sequence returned:
PlacesOf(ret, w) == {i \in DOMAIN ret : ret[i] = w}

\* C13: GetChildrenFromSamePeer(parent, peer) returns exactly the held orphans
\* that spend an output of the parent and that the peer announced, each once,
\* in the order of non-increasing expiry, and changes no state.
C13_ChildrenFromSamePeer ==
    [][last'.op = "GetChildrenFromSamePeer" =>
          LET ret == last'.ret
          IN /\ UNCHANGED orphanVars
             /\ {ret[i] : i \in DOMAIN ret} = ChildrenOf(last'.nodeid)
             /\ \A w \in ChildrenOf(last'.nodeid) : Cardinality(PlacesOf(ret, w)) = 1
             /\ \A i, j \in DOMAIN ret :
                   i < j => m_orphans[ret[i]].nTimeExpire >= m_orphans[ret[j]].nTimeExpire]_vars

\* C13's case: the three children returned include an orphan that spends both
\* outputs of the parent, orphans of different expiry and two of the same
\* expiry.
C13_Witness ==
    /\ last.op = "GetChildrenFromSamePeer"
    /\ Len(last.ret) = 3
    /\ \E i \in DOMAIN last.ret : Cardinality(Prevouts(Tx(last.ret[i]))) = 2
    /\ m_orphans[last.ret[1]].nTimeExpire > m_orphans[last.ret[3]].nTimeExpire
    /\ \E i \in 1..2 : m_orphans[last.ret[i]].nTimeExpire = m_orphans[last.ret[i + 1]].nTimeExpire

\* No call of EraseTx, made directly or by another operation, would fail the
\* assertion of txorphanage.cpp:86 in this state.
NoCallAborts ==
    /\ \A wtxid \in Wtxids :
          /\ ~EraseTxResult(Orphanage, wtxid).aborted
          /\ \A peer \in Peers : ~EraseOrphanOfPeerResult(Orphanage, wtxid, peer).aborted
    /\ \A peer \in Peers : ~EraseForPeerResult(Orphanage, peer).aborted
    /\ \A block \in Blocks : ~EraseForBlockResult(Orphanage, block).aborted

\* C14: after every operation on the pool, in any sequence, m_orphan_list is
\* as long as m_orphans, every list_pos is an index of m_orphan_list and the
\* element there is the entry itself, so that the assertion of EraseTx holds.
C14_ListMatchesMap ==
    /\ Len(m_orphan_list) = Cardinality(DOMAIN m_orphans)
    /\ \A w \in DOMAIN m_orphans :
          /\ m_orphans[w].list_pos \in 0..(Len(m_orphan_list) - 1)
          /\ m_orphan_list[m_orphans[w].list_pos + 1] = w
    /\ NoCallAborts

\* C14's case: an erase has moved the last element of m_orphan_list into the
\* place of the erased one, ahead of an element that stayed.
C14_Witness ==
    /\ last.op \in {"EraseTx", "EraseForPeer", "EraseOrphanOfPeer", "EraseForBlock",
                    "LimitOrphans"}
    /\ Len(m_orphan_list) = 2
    /\ m_orphan_list[1] > m_orphan_list[2]

\* C15: after every operation on the pool, in any sequence,
\* m_outpoint_to_orphan_it holds for every outpoint some held orphan spends
\* exactly the held orphans that spend it, and no other key: no set is empty.
C15_OutpointIndexExact ==
    /\ \A w \in DOMAIN m_orphans : Prevouts(Tx(w)) \subseteq DOMAIN m_outpoint_to_orphan_it
    /\ \A p \in DOMAIN m_outpoint_to_orphan_it :
          /\ m_outpoint_to_orphan_it[p] # {}
          /\ m_outpoint_to_orphan_it[p] = {w \in DOMAIN m_orphans : p \in Prevouts(Tx(w))}

\* C15's case: EraseForBlock has erased an orphan that spent both outputs of
\* the parent; the key of the one output has left the index, and the set of
\* the other is left with the orphan that names that output twice.
C15_Witness ==
    /\ last.op = "EraseForBlock"
    /\ \E i \in DOMAIN last.ret : Cardinality(Prevouts(Tx(last.ret[i]))) = 2
    /\ COutPoint(ParentTx.txid, 0) \notin DOMAIN m_outpoint_to_orphan_it
    /\ COutPoint(ParentTx.txid, 1) \in DOMAIN m_outpoint_to_orphan_it
    /\ \E w \in m_outpoint_to_orphan_it[COutPoint(ParentTx.txid, 1)] :
          Len(Tx(w).vin) > Cardinality(Prevouts(Tx(w)))

\* C16: in every state of the pool, every held orphan has an announcer.
C16_AnnouncersNeverEmpty ==
    \A w \in DOMAIN m_orphans : m_orphans[w].announcers # {}

\* C16's case: EraseForPeer has erased an orphan of the peer, and an orphan
\* is held whose announcers are the other peers.
C16_Witness ==
    /\ last.op = "EraseForPeer"
    /\ last.nErased >= 1
    /\ \E w \in DOMAIN m_orphans : m_orphans[w].announcers = Peers \ {last.peer}

\* C17: in every state reached by SetSporkAddress and SetMinSporkKeys calls in
\* any order, once a threshold has been accepted, more than half of the
\* authorized keys and no more than all of them make the threshold:
\* |setSporkPubKeyIDs| / 2 < nMinSporkKeys <= |setSporkPubKeyIDs|.
C17_ThresholdIsMajority ==
    nMinSporkKeys # UnsetMinSporkKeys =>
        /\ Cardinality(setSporkPubKeyIDs) \div 2 < nMinSporkKeys
        /\ nMinSporkKeys <= Cardinality(setSporkPubKeyIDs)

\* What SporkValueIsActive(s) returns now, the signers walked in this order.
ActiveNow(s, order) ==
    LET r == SporkValueIsActiveResult(Maps, s, nMinSporkKeys, order)
    IN <<r.ok, r.value>>

\* C18: in every state, at most one value of a spork is carried by at least
\* nMinSporkKeys signers of active[s], and SporkValueIsActive(s) returns the
\* same whichever way it walks the signers.
C18_OneWinnerAnyOrder ==
    \A s \in SporkIDs :
        /\ Cardinality(Winners(s)) <= 1
        /\ \A order1, order2 \in WalksOf(Maps, s) : ActiveNow(s, order1) = ActiveNow(s, order2)

\* C19: in every state, a value memoized for spork s in mapSporksCachedValues
\* is a value that at least nMinSporkKeys signers of active[s] carry.
C19_CachedValueIsWinner ==
    \A s \in DOMAIN mapSporksCachedValues : mapSporksCachedValues[s] \in Winners(s)

\* C20: once CheckAndRemove has returned after the latest change of the
\* authorized set, every message in active[s][k] is a message of spork s
\* whose recovered signer is k, and k is authorized, however the threads'
\* ProcessSpork and UpdateSpork calls interleave with the two.
C20_ActiveIsAuthorized ==
    last.op = "CheckAndRemove" =>
        \A s \in DOMAIN mapSporksActive : \A k \in DOMAIN mapSporksActive[s] :
            /\ mapSporksActive[s][k].nSporkID = s
            /\ GetSignerKeyID(mapSporksActive[s][k]) = [ok |-> TRUE, keyID |-> k]
            /\ k \in setSporkPubKeyIDs

\* C21: in every state, every key of mapSporksByHash is the hash of the
\* message it maps to, and mapSporksActive has, under the message's sporkID,
\* an entry for the message's signer.
C21_ByHashBackedByActive ==
    \A h \in DOMAIN mapSporksByHash :
        LET spork == mapSporksByHash[h]
            signer == GetSignerKeyID(spork)
        IN /\ h = GetHash(spork)
           /\ signer.ok
           /\ spork.nSporkID \in DOMAIN mapSporksActive
           /\ signer.keyID \in DOMAIN mapSporksActive[spork.nSporkID]

\* C21's case: CheckAndRemove has erased messages, and mapSporksByHash still
\* holds a message that a newer one of the same signer has superseded.
C21_Witness ==
    /\ last.op = "CheckAndRemove"
    /\ last.erased >= 1
    /\ \E h \in DOMAIN mapSporksByHash :
          LET spork == mapSporksByHash[h]
          IN mapSporksActive[spork.nSporkID][spork.vchSig].nTimeSigned > spork.nTimeSigned

\* The spork of thread t is in both maps under its hash, sporkID and signer,
\* and nothing is memoized for its sporkID, after the step.
StoredAndEvicted(t) ==
    LET spork == thread[t].spork
    IN /\ GetHash(spork) \in DOMAIN mapSporksByHash'
       /\ mapSporksByHash'[GetHash(spork)] = spork
       /\ spork.nSporkID \in DOMAIN mapSporksActive'
       /\ spork.vchSig \in DOMAIN mapSporksActive'[spork.nSporkID]
       /\ mapSporksActive'[spork.nSporkID][spork.vchSig] = spork
       /\ spork.nSporkID \notin DOMAIN mapSporksCachedActive'
       /\ spork.nSporkID \notin DOMAIN mapSporksCachedValues'

\* C22: a call relays its spork exactly when it accepted it.  A thread comes
\* to Relay only by the step that stores its spork in active and byHash and
\* evicts the caches of the sporkID; that step always goes on to Relay, and
\* Relay is one step, after which the call has returned.  A spork signed too
\* far ahead, signed by no authorized key, or no newer than the stored one of
\* its signer, takes the call to a return without a store and without Relay.
C22_RelayedIffAccepted ==
    [][\A t \in Threads :
          LET pc == thread[t].pc
              to == thread'[t].pc
              spork == thread[t].spork
          IN to # pc =>
                /\ to = "Relay" => pc = "Store" /\ StoredAndEvicted(t)
                /\ pc = "Store" => to = "Relay"
                /\ pc = "Relay" => to = "idle"
                /\ (pc = "Received" /\ spork.nTimeSigned > adjustedTime + MaxFutureSkew)
                      => to = "RejectFuture"
                /\ (pc = "GetSigner" /\ (spork.vchSig = BadSig \/ spork.vchSig \notin setSporkPubKeyIDs))
                      => to = "RejectSignature"
                /\ (pc = "CheckSeen" /\ StoredAsNew(spork)) => to = "ForgetSeen"
                /\ pc \in {"RejectFuture", "RejectSignature", "ForgetSeen"}
                      => to = "idle" /\ MapsUnchanged]_vars

\* C22's case: one thread has stored its spork and is about to relay it,
\* while another is dropping a spork that is no newer than the stored one.
C22_Witness ==
    \E t, u \in Threads :
        /\ thread[t].pc = "Relay"
        /\ mapSporksByHash[GetHash(thread[t].spork)] = thread[t].spork
        /\ thread[u].pc = "ForgetSeen"
        /\ StoredAsNew(thread[u].spork)

\* The held orphans whose expiry is not after now, and the least of a
\* non-empty set of numbers.
Expired(now) == {w \in DOMAIN m_orphans : m_orphans[w].nTimeExpire <= now}
Least(S) == CHOOSE x \in S : \A y \in S : x <= y

\* What C23 says of a LimitOrphans call apart from the new m_next_sweep: a
\* sweep (m_next_sweep <= now) erases every orphan whose expiry is not after
\* now, and those are all that the call removes without evicting them; with
\* m_next_sweep > now the call removes orphans by eviction only and leaves
\* m_next_sweep as it is.
SweepsExpired ==
    IF m_next_sweep <= nodeClock
    THEN /\ \A w \in DOMAIN m_orphans' : w \notin Expired(nodeClock)
         /\ Len(last'.ret) - last'.nEvicted = Cardinality(Expired(nodeClock))
    ELSE /\ m_next_sweep' = m_next_sweep
         /\ Len(last'.ret) = last'.nEvicted

\* The expiries of the orphans a sweep at now leaves.
SurvivorExpiries ==
    {m_orphans[w].nTimeExpire : w \in (DOMAIN m_orphans) \ Expired(nodeClock)}

C24_SweepIsTimely ==
    [][/\ \A w \in DOMAIN m_orphans' :
             m_next_sweep' <= m_orphans'[w].nTimeExpire + ORPHAN_TX_EXPIRE_INTERVAL
       /\ last'.op = "LimitOrphans" =>
             \A w \in DOMAIN m_orphans :
                nodeClock >= m_orphans[w].nTimeExpire + ORPHAN_TX_EXPIRE_INTERVAL
                => w \notin DOMAIN m_orphans'
       /\ m_next_sweep' # m_next_sweep =>
             /\ last'.op = "LimitOrphans"
             /\ m_next_sweep <= nodeClock
             /\ m_next_sweep' >= nodeClock + ORPHAN_TX_EXPIRE_INTERVAL]_vars

\* C24's case: LimitOrphans, called with room for every orphan after the
\* first orphans have expired, has removed an orphan by the sweep and left one
\* that expires later, and the next sweep is due.
C24_Witness ==
    /\ last.op = "LimitOrphans"
    /\ last.max_orphans = RngLen
    /\ last.nEvicted = 0
    /\ Len(last.ret) >= 1
    /\ nodeClock >= ORPHAN_TX_EXPIRE_TIME + ORPHAN_TX_EXPIRE_INTERVAL
    /\ m_orphans # Empty
    /\ m_next_sweep > nodeClock + ORPHAN_TX_EXPIRE_INTERVAL

\* C25: after any sequence of operations, a transaction GetTxToReconsider(p)
\* returns is one of an orphan that p announces now.
C25_ReconsideredIsAnnounced ==
    [][\A p \in Peers :
          (GetTxToReconsiderCall(p) /\ last'.ret # 0)
          => p \in m_orphans[last'.ret].announcers]_vars
====
